---- MODULE Spec2Model ----
(***************************************************************************)
(* Model of the embedding gateway of aurum-data/pr_embedding:              *)
(*   app/llm.py   EmbeddingModel: the lazily constructed, process-wide     *)
(*                Llama handle (_load_llama) and the batching dispatcher   *)
(*                (embed);                                                 *)
(*   app/main.py  lifespan (warm-up) and the create_embeddings handler on  *)
(*                the asyncio event loop;                                  *)
(*   app/schemas.py  EmbeddingRequest validation.                          *)
(*                                                                         *)
(* The specifications share the thread actions of EmbeddingModel:          *)
(*   Spec         NumCallers threads call _load_llama / embed concurrently *)
(*                through the object of get_embedding_model(); FairSpec    *)
(*                adds a fair scheduler                                    *)
(*   SharedSpec   two threads call through any of two EmbeddingModel       *)
(*                objects                                                  *)
(*   EmbedSpec    one thread calls embed over larger inputs and settings   *)
(*   ServiceSpec  the FastAPI service: warm-up in the executor thread,     *)
(*                then requests handled one by one on the event loop;      *)
(*                ServiceLiveSpec adds fairness                            *)
(***************************************************************************)
EXTENDS Integers, Sequences, FiniteSets

----------------------------------------------------------------------------
(* Bounds of the model *)

\* number of threads calling into EmbeddingModel concurrently (Spec)
NumCallers == 2
\* failures of hf_hub_download / Llama(...) in one behaviour
MaxFailures == 2
\* longest input list of the single caller (EmbedSpec)
MaxInputs == 5
\* largest batch_size the single caller requests (EmbedSpec)
MaxRequested == 3
\* largest small value of settings.max_batch_size tried (EmbedSpec)
MaxSetting == 2
\* HTTP requests sent to the service in one behaviour (ServiceSpec)
MaxRequests == 2
\* longest input list of an HTTP request (ServiceSpec)
MaxRequestLen == 2

\* Settings.max_batch_size as shipped
DefaultMaxBatch == 32

\* the input lengths of the concurrent callers (Spec)
ConcurrentLens == {0, 1}

Threads == 1 .. NumCallers
None == 0

\* the EmbeddingModel objects of the process: the one get_embedding_model()
\* caches, and one more made by calling EmbeddingModel() directly
Objects == {1, 2}
Singleton == 1

\* the path _download_model resolves
ResolvedPath == 1

----------------------------------------------------------------------------
VARIABLES
    instance,        \* EmbeddingModel._instance: None or the id of a handle
    lock,            \* EmbeddingModel._lock: None or the thread holding it
    max_batch_size,  \* settings.max_batch_size
    pc,              \* per thread: position in _load_llama / embed
    op,              \* per thread: "acquire" (_load_llama) or "embed"
    inputs,          \* per thread: the payload of the embed call
    batch_size,      \* per thread: the batch_size argument (None or >= 1)
    llama,           \* per thread: the handle _load_llama returned
    index,           \* per thread: loop index of embed (0-based)
    embeddings,      \* per thread: the local list being built
    outcome,         \* per thread: "none", "ok", "load_error", "compute_error"
    result,          \* per thread: the value returned by the call
    self,            \* per thread: the EmbeddingModel object the call goes through
    model_path,      \* per object: self._model_path, None or the resolved path
    \* history variables (not program state)
    attempts,        \* constructions invoked (entries into line 62)
    built,           \* constructions that succeeded
    failures,        \* constructions that failed
    computeFailed,   \* some create_embedding call has raised
    waited,          \* per thread: found the lock held in this call
    failSeen,        \* per thread: a construction failed while it waited
    constructed,     \* per thread: constructions invoked in this call
    chunkLog,        \* per thread: the chunks passed to create_embedding
    dropped,         \* per thread: entries dropped from this call's responses
    \* the service (app/main.py)
    phase,           \* "library" (no service), "startup", "warmup", "accepting"
    warmup,          \* what lifespan logged: "none", "ok", "failed"
    pending,         \* requests sent by clients, not yet taken by the event loop
    arrivals,        \* requests sent so far
    response,        \* the last response sent
    sent             \* history: the status codes sent so far

objVars == <<self, model_path>>
progVars == <<instance, lock, max_batch_size, pc, op, inputs, batch_size,
              llama, index, embeddings, outcome, result, objVars>>
histVars == <<attempts, built, failures, computeFailed,
              waited, failSeen, constructed, chunkLog, dropped>>
svcVars == <<phase, warmup, pending, arrivals, response, sent>>
vars == <<progVars, histVars, svcVars>>

----------------------------------------------------------------------------
(* Pure helpers *)

\* the unique marker of the i-th input of thread t's call
Marker(t, i) == 10 * t + i

\* the inputs of a call of thread t with n strings
MakeInputs(t, n) == [i \in 1 .. n |-> Marker(t, i)]

\* the vector the engine computes for one input; normalize and pooling_type
\* (lines 98-100) are handed on to the engine unchanged and decide nothing here
StubVector(x) == 100 + x

Min(a, b) == IF a <= b THEN a ELSE b

\* Slice with an end one too far: payload[index : index + size + 1]
SliceOneMore(payload, idx, size) ==
    [k \in 1 .. (Min(idx + size + 1, Len(payload)) - idx) |-> payload[idx + k]]

\* payload[index : index + size], python slice on a 0-based index
Slice(payload, idx, size) ==
    [k \in 1 .. (Min(idx + size, Len(payload)) - idx) |-> payload[idx + k]]

\* ResolvedBatch without the ceiling: batch_size or settings.max_batch_size
ResolvedBatchNoCeiling(bs, maxb) == IF bs = None THEN maxb ELSE bs

\* min(batch_size or settings.max_batch_size, settings.max_batch_size)
ResolvedBatch(bs, maxb) == Min(IF bs = None THEN maxb ELSE bs, maxb)

\* response["data"] of create_embedding(chunk); entry d (if any) has no vector
Response(chunk, d) ==
    [k \in 1 .. Len(chunk) |-> [has |-> (k # d), embedding |-> StubVector(chunk[k])]]

RECURSIVE ChunkEmbeddingsPads(_)
\* ChunkEmbeddings that puts a zero vector where an entry has none
ChunkEmbeddingsPads(data) ==
    IF data = <<>> THEN <<>>
    ELSE <<IF Head(data).has THEN Head(data).embedding ELSE 0>>
             \o ChunkEmbeddingsPads(Tail(data))

RECURSIVE ChunkEmbeddings(_)
\* [item["embedding"] for item in response["data"] if "embedding" in item]
ChunkEmbeddings(data) ==
    IF data = <<>> THEN <<>>
    ELSE IF Head(data).has
         THEN <<Head(data).embedding>> \o ChunkEmbeddings(Tail(data))
         ELSE ChunkEmbeddings(Tail(data))

----------------------------------------------------------------------------
(* Initial state *)

InitThreads ==
    /\ instance = None
    /\ lock = None
    /\ pc = [t \in Threads |-> "idle"]
    /\ op = [t \in Threads |-> "none"]
    /\ inputs = [t \in Threads |-> <<>>]
    /\ batch_size = [t \in Threads |-> None]
    /\ llama = [t \in Threads |-> None]
    /\ index = [t \in Threads |-> 0]
    /\ embeddings = [t \in Threads |-> <<>>]
    /\ outcome = [t \in Threads |-> "none"]
    /\ result = [t \in Threads |-> <<>>]
    /\ self = [t \in Threads |-> None]
    /\ model_path = [o \in Objects |-> None]
    /\ attempts = 0
    /\ built = 0
    /\ failures = 0
    /\ computeFailed = FALSE
    /\ waited = [t \in Threads |-> FALSE]
    /\ failSeen = [t \in Threads |-> FALSE]
    /\ constructed = [t \in Threads |-> 0]
    /\ chunkLog = [t \in Threads |-> <<>>]
    /\ dropped = [t \in Threads |-> 0]

NoResponse == [status |-> 0, data |-> <<>>]

\* no service around the class
NoService ==
    /\ phase = "library"
    /\ warmup = "none"
    /\ pending = 0
    /\ arrivals = 0
    /\ response = NoResponse
    /\ sent = {}

Init ==
    /\ InitThreads
    /\ NoService
    /\ max_batch_size = DefaultMaxBatch

----------------------------------------------------------------------------
(* Calls *)

\* the locals and the per-call history of thread t at the start of a call
\* through object o
BeginCallOn(t, o, kind, n, bs) ==
    /\ pc[t] = "idle"
    /\ self' = [self EXCEPT ![t] = o]
    /\ UNCHANGED model_path
    /\ pc' = [pc EXCEPT ![t] = "check1"]
    /\ op' = [op EXCEPT ![t] = kind]
    /\ inputs' = [inputs EXCEPT ![t] = MakeInputs(t, n)]
    /\ batch_size' = [batch_size EXCEPT ![t] = bs]
    /\ llama' = [llama EXCEPT ![t] = None]
    /\ index' = [index EXCEPT ![t] = 0]
    /\ embeddings' = [embeddings EXCEPT ![t] = <<>>]
    /\ outcome' = [outcome EXCEPT ![t] = "none"]
    /\ result' = [result EXCEPT ![t] = <<>>]
    /\ waited' = [waited EXCEPT ![t] = FALSE]
    /\ failSeen' = [failSeen EXCEPT ![t] = FALSE]
    /\ constructed' = [constructed EXCEPT ![t] = 0]
    /\ chunkLog' = [chunkLog EXCEPT ![t] = <<>>]
    /\ dropped' = [dropped EXCEPT ![t] = 0]
    /\ UNCHANGED <<instance, lock, max_batch_size, attempts, built, failures,
                   computeFailed>>

\* a call through the object of get_embedding_model()
BeginCall(t, kind, n, bs) == BeginCallOn(t, Singleton, kind, n, bs)

\* a thread calls EmbeddingModel._load_llama()
CallAcquire(t) ==
    /\ BeginCall(t, "acquire", 0, None)
    /\ UNCHANGED svcVars

\* a thread calls EmbeddingModel.embed(inputs, batch_size=bs)
CallEmbed(t, n, bs) ==
    /\ BeginCall(t, "embed", n, bs)
    /\ UNCHANGED svcVars

\* where _load_llama returns to: its caller, or line 87 of embed
AfterLoad(t) == IF op[t] = "acquire" THEN "done" ELSE "payload"

\* _load_llama returns handle h to thread t
LoadReturns(t, h) ==
    /\ llama' = [llama EXCEPT ![t] = h]
    /\ pc' = [pc EXCEPT ![t] = AfterLoad(t)]
    /\ outcome' = [outcome EXCEPT ![t] = IF op[t] = "acquire" THEN "ok" ELSE @]

----------------------------------------------------------------------------
(* EmbeddingModel._load_llama *)

\* Check1 without the unlocked look at _instance: every call takes the lock
Check1AlwaysLocks(t) ==
    /\ pc[t] = "check1"
    /\ pc' = [pc EXCEPT ![t] = "lock"]
    /\ UNCHANGED <<svcVars, objVars>>
    /\ UNCHANGED <<instance, lock, max_batch_size, op, inputs, batch_size,
                   llama, index, embeddings, outcome, result, histVars>>

\* lines 55-56: the unlocked check (the attribute is read twice; no action
\* writes it between a non-None read and the next read)
Check1(t) ==
    /\ pc[t] = "check1"
    /\ IF instance # None
       THEN LoadReturns(t, instance)
       ELSE /\ pc' = [pc EXCEPT ![t] = "lock"]
            /\ UNCHANGED <<llama, outcome>>
    /\ UNCHANGED <<svcVars, objVars>>
    /\ UNCHANGED <<instance, lock, max_batch_size, op, inputs, batch_size,
                   index, embeddings, result, histVars>>

\* AcquireLock without mutual exclusion: the block is entered at once
AcquireLockNoExclusion(t) ==
    /\ pc[t] = "lock"
    /\ lock' = t
    /\ pc' = [pc EXCEPT ![t] = "check2"]
    /\ UNCHANGED <<svcVars, objVars>>
    /\ UNCHANGED <<instance, max_batch_size, op, inputs, batch_size, llama,
                   index, embeddings, outcome, result, histVars>>

\* AcquireLock with one lock per EmbeddingModel object (self._lock made in
\* __init__): a holder that came through another object does not exclude t
AcquireLockPerObject(t) ==
    /\ pc[t] = "lock"
    /\ IF lock = None \/ self[lock] # self[t]
       THEN /\ lock' = t
            /\ pc' = [pc EXCEPT ![t] = "check2"]
            /\ UNCHANGED waited
       ELSE /\ ~waited[t]
            /\ waited' = [waited EXCEPT ![t] = TRUE]
            /\ UNCHANGED <<lock, pc>>
    /\ UNCHANGED <<svcVars, objVars>>
    /\ UNCHANGED <<instance, max_batch_size, op, inputs, batch_size, llama,
                   index, embeddings, outcome, result, attempts, built,
                   failures, computeFailed, failSeen,
                   constructed, chunkLog, dropped>>

\* line 58: entering "with EmbeddingModel._lock"; a thread that finds the
\* lock held is suspended until it is released
AcquireLock(t) ==
    /\ pc[t] = "lock"
    /\ IF lock = None
       THEN /\ lock' = t
            /\ pc' = [pc EXCEPT ![t] = "check2"]
            /\ UNCHANGED waited
       ELSE /\ ~waited[t]
            /\ waited' = [waited EXCEPT ![t] = TRUE]
            /\ UNCHANGED <<lock, pc>>
    /\ UNCHANGED <<svcVars, objVars>>
    /\ UNCHANGED <<instance, max_batch_size, op, inputs, batch_size, llama,
                   index, embeddings, outcome, result, attempts, built,
                   failures, computeFailed, failSeen,
                   constructed, chunkLog, dropped>>

\* Check2 without the second look at _instance: always constructs
Check2NoRecheck(t) ==
    /\ pc[t] = "check2"
    /\ pc' = [pc EXCEPT ![t] = "download"]
    /\ attempts' = attempts + 1
    /\ constructed' = [constructed EXCEPT ![t] = @ + 1]
    /\ UNCHANGED <<svcVars, objVars>>
    /\ UNCHANGED <<instance, lock, max_batch_size, op, inputs, batch_size,
                   llama, index, embeddings, outcome, result, built, failures,
                   computeFailed, waited, failSeen, chunkLog, dropped>>

\* lines 59-60: the check under the lock; returning leaves the with block
Check2(t) ==
    /\ pc[t] = "check2"
    /\ IF instance # None
       THEN /\ LoadReturns(t, instance)
            /\ lock' = None
            /\ UNCHANGED <<attempts, constructed>>
       ELSE /\ pc' = [pc EXCEPT ![t] = "download"]
            /\ attempts' = attempts + 1
            /\ constructed' = [constructed EXCEPT ![t] = @ + 1]
            /\ UNCHANGED <<lock, llama, outcome>>
    /\ UNCHANGED <<svcVars, objVars>>
    /\ UNCHANGED <<instance, max_batch_size, op, inputs, batch_size, index,
                   embeddings, result, built, failures, computeFailed, waited, failSeen, chunkLog, dropped>>

\* LoadRaises with a bare acquire(): the exception leaves the lock held
LoadRaisesKeepsLock(t) ==
    /\ failures < MaxFailures
    /\ failures' = failures + 1
    /\ pc' = [pc EXCEPT ![t] = "done"]
    /\ outcome' = [outcome EXCEPT ![t] = "load_error"]
    /\ failSeen' = [u \in Threads |->
                      failSeen[u] \/ (u # t /\ pc[u] = "lock" /\ waited[u])]
    /\ UNCHANGED <<svcVars, objVars>>
    /\ UNCHANGED <<instance, lock, max_batch_size, op, inputs, batch_size,
                   llama, index, embeddings, result, attempts, built,
                   computeFailed, waited, constructed, chunkLog, dropped>>

\* an exception leaves the with block of _load_llama and the call
LoadRaises(t) ==
    /\ failures < MaxFailures
    /\ failures' = failures + 1
    /\ lock' = None
    /\ pc' = [pc EXCEPT ![t] = "done"]
    /\ outcome' = [outcome EXCEPT ![t] = "load_error"]
    /\ failSeen' = [u \in Threads |->
                      failSeen[u] \/ (u # t /\ pc[u] = "lock" /\ waited[u])]
    /\ UNCHANGED <<svcVars, objVars>>
    /\ UNCHANGED <<instance, max_batch_size, op, inputs, batch_size, llama,
                   index, embeddings, result, attempts, built,
                   computeFailed, waited, constructed,
                   chunkLog, dropped>>

\* line 62: _download_model (hf_hub_download) returns the path
DownloadOk(t) ==
    /\ pc[t] = "download"
    /\ pc' = [pc EXCEPT ![t] = "construct"]
    /\ model_path' = [model_path EXCEPT ![self[t]] = ResolvedPath]
    /\ UNCHANGED <<svcVars, self>>
    /\ UNCHANGED <<instance, lock, max_batch_size, op, inputs, batch_size,
                   llama, index, embeddings, outcome, result, histVars>>

\* line 62: _download_model raises
DownloadFail(t) ==
    /\ pc[t] = "download"
    /\ LoadRaises(t)

\* lines 63-71: Llama(...) returns, the handle is recorded and returned
ConstructOk(t) ==
    /\ pc[t] = "construct"
    /\ instance' = built + 1
    /\ built' = built + 1
    /\ lock' = None
    /\ LoadReturns(t, built + 1)
    /\ UNCHANGED <<svcVars, objVars>>
    /\ UNCHANGED <<max_batch_size, op, inputs, batch_size, index, embeddings,
                   result, attempts, failures, computeFailed,
                   waited, failSeen, constructed, chunkLog, dropped>>

\* line 63: Llama(...) raises
ConstructFail(t) ==
    /\ pc[t] = "construct"
    /\ LoadRaises(t)

----------------------------------------------------------------------------
(* EmbeddingModel.embed *)

\* lines 87-94: the empty payload returns []; otherwise the loop is set up
Payload(t) ==
    /\ pc[t] = "payload"
    /\ IF inputs[t] = <<>>
       THEN /\ pc' = [pc EXCEPT ![t] = "done"]
            /\ outcome' = [outcome EXCEPT ![t] = "ok"]
            /\ result' = [result EXCEPT ![t] = <<>>]
       ELSE /\ pc' = [pc EXCEPT ![t] = "loop"]
            /\ UNCHANGED <<outcome, result>>
    /\ index' = [index EXCEPT ![t] = 0]
    /\ embeddings' = [embeddings EXCEPT ![t] = <<>>]
    \* the history of the _load_llama call ends with it
    /\ waited' = [waited EXCEPT ![t] = FALSE]
    /\ failSeen' = [failSeen EXCEPT ![t] = FALSE]
    /\ constructed' = [constructed EXCEPT ![t] = 0]
    /\ UNCHANGED <<svcVars, objVars>>
    /\ UNCHANGED <<instance, lock, max_batch_size, op, inputs, batch_size,
                   llama, attempts, built, failures, computeFailed, chunkLog,
                   dropped>>

\* lines 96-101 and 107: the for header; either the next chunk is passed to
\* llama.create_embedding or the loop is over and embeddings is returned
ForNext(t) ==
    /\ pc[t] = "loop"
    /\ IF index[t] < Len(inputs[t])
       THEN /\ pc' = [pc EXCEPT ![t] = "compute"]
            /\ chunkLog' = [chunkLog EXCEPT ![t] =
                  Append(@, Slice(inputs[t], index[t],
                                  ResolvedBatch(batch_size[t], max_batch_size)))]
            /\ UNCHANGED <<outcome, result>>
       ELSE /\ pc' = [pc EXCEPT ![t] = "done"]
            /\ outcome' = [outcome EXCEPT ![t] = "ok"]
            /\ result' = [result EXCEPT ![t] = embeddings[t]]
            /\ UNCHANGED chunkLog
    /\ UNCHANGED <<svcVars, objVars>>
    /\ UNCHANGED <<instance, lock, max_batch_size, op, inputs, batch_size,
                   llama, index, embeddings, attempts, built, failures,
                   computeFailed, waited, failSeen,
                   constructed, dropped>>

\* the chunk thread t has passed to create_embedding
CurrentChunk(t) == chunkLog[t][Len(chunkLog[t])]

\* ComputeReturn with one list shared by all calls instead of the local one
ComputeReturnSharedList(t, d) ==
    /\ pc[t] = "compute"
    /\ d \in 0 .. Len(CurrentChunk(t))
    /\ dropped' = [dropped EXCEPT ![t] = IF d # 0 THEN @ + 1 ELSE @]
    /\ embeddings' = [u \in Threads |->
                        embeddings[u]
                          \o ChunkEmbeddings(Response(CurrentChunk(t), d))]
    /\ index' = [index EXCEPT ![t] =
                   @ + ResolvedBatch(batch_size[t], max_batch_size)]
    /\ pc' = [pc EXCEPT ![t] = "loop"]
    /\ UNCHANGED <<svcVars, objVars>>
    /\ UNCHANGED <<instance, lock, max_batch_size, op, inputs, batch_size,
                   llama, outcome, result, attempts, built, failures,
                   computeFailed, waited, failSeen, constructed, chunkLog>>

\* ComputeReturn that puts the new vectors in front of the earlier ones
ComputeReturnPrepends(t, d) ==
    /\ pc[t] = "compute"
    /\ d \in 0 .. Len(CurrentChunk(t))
    /\ dropped' = [dropped EXCEPT ![t] = IF d # 0 THEN @ + 1 ELSE @]
    /\ embeddings' = [embeddings EXCEPT ![t] =
                        ChunkEmbeddings(Response(CurrentChunk(t), d)) \o @]
    /\ index' = [index EXCEPT ![t] =
                   @ + ResolvedBatch(batch_size[t], max_batch_size)]
    /\ pc' = [pc EXCEPT ![t] = "loop"]
    /\ UNCHANGED <<svcVars, objVars>>
    /\ UNCHANGED <<instance, lock, max_batch_size, op, inputs, batch_size,
                   llama, outcome, result, attempts, built, failures,
                   computeFailed, waited, failSeen, constructed, chunkLog>>

\* lines 101-105: create_embedding returns; the entries that carry a vector
\* are appended (entry d of the response, if d # 0, carries none)
ComputeReturn(t, d) ==
    /\ pc[t] = "compute"
    /\ d \in 0 .. Len(CurrentChunk(t))
    /\ dropped' = [dropped EXCEPT ![t] = IF d # 0 THEN @ + 1 ELSE @]
    /\ embeddings' = [embeddings EXCEPT ![t] =
                        @ \o ChunkEmbeddings(Response(CurrentChunk(t), d))]
    /\ index' = [index EXCEPT ![t] =
                   @ + ResolvedBatch(batch_size[t], max_batch_size)]
    /\ pc' = [pc EXCEPT ![t] = "loop"]
    /\ UNCHANGED <<svcVars, objVars>>
    /\ UNCHANGED <<instance, lock, max_batch_size, op, inputs, batch_size,
                   llama, outcome, result, attempts, built, failures,
                   computeFailed, waited, failSeen, constructed,
                   chunkLog>>

\* ComputeFail that also forgets the shared handle
ComputeFailDropsHandle(t) ==
    /\ pc[t] = "compute"
    /\ computeFailed' = TRUE
    /\ instance' = None
    /\ pc' = [pc EXCEPT ![t] = "done"]
    /\ outcome' = [outcome EXCEPT ![t] = "compute_error"]
    /\ UNCHANGED <<svcVars, objVars>>
    /\ UNCHANGED <<lock, max_batch_size, op, inputs, batch_size,
                   llama, index, embeddings, result, attempts, built,
                   failures, waited, failSeen, constructed,
                   chunkLog, dropped>>

\* ComputeFail that swallows the exception and returns the vectors so far
ComputeFailReturnsPartial(t) ==
    /\ pc[t] = "compute"
    /\ computeFailed' = TRUE
    /\ pc' = [pc EXCEPT ![t] = "done"]
    /\ outcome' = [outcome EXCEPT ![t] = "ok"]
    /\ result' = [result EXCEPT ![t] = embeddings[t]]
    /\ UNCHANGED <<svcVars, objVars>>
    /\ UNCHANGED <<instance, lock, max_batch_size, op, inputs, batch_size,
                   llama, index, embeddings, attempts, built,
                   failures, waited, failSeen, constructed,
                   chunkLog, dropped>>

\* line 101: create_embedding raises; the exception leaves embed
ComputeFail(t) ==
    /\ pc[t] = "compute"
    /\ computeFailed' = TRUE
    /\ pc' = [pc EXCEPT ![t] = "done"]
    /\ outcome' = [outcome EXCEPT ![t] = "compute_error"]
    /\ UNCHANGED <<svcVars, objVars>>
    /\ UNCHANGED <<instance, lock, max_batch_size, op, inputs, batch_size,
                   llama, index, embeddings, result, attempts, built,
                   failures, waited, failSeen, constructed,
                   chunkLog, dropped>>

\* the locals of the finished call of thread t go out of scope
EndCall(t) ==
    /\ pc[t] = "done"
    /\ self' = [self EXCEPT ![t] = None]
    /\ UNCHANGED model_path
    /\ pc' = [pc EXCEPT ![t] = "idle"]
    /\ op' = [op EXCEPT ![t] = "none"]
    /\ inputs' = [inputs EXCEPT ![t] = <<>>]
    /\ batch_size' = [batch_size EXCEPT ![t] = None]
    /\ llama' = [llama EXCEPT ![t] = None]
    /\ index' = [index EXCEPT ![t] = 0]
    /\ embeddings' = [embeddings EXCEPT ![t] = <<>>]
    /\ outcome' = [outcome EXCEPT ![t] = "none"]
    /\ result' = [result EXCEPT ![t] = <<>>]
    /\ waited' = [waited EXCEPT ![t] = FALSE]
    /\ failSeen' = [failSeen EXCEPT ![t] = FALSE]
    /\ constructed' = [constructed EXCEPT ![t] = 0]
    /\ chunkLog' = [chunkLog EXCEPT ![t] = <<>>]
    /\ dropped' = [dropped EXCEPT ![t] = 0]
    /\ UNCHANGED <<instance, lock, max_batch_size, attempts, built, failures,
                   computeFailed>>

\* the caller has its return value or exception; the thread is free again
Return(t) ==
    /\ EndCall(t)
    /\ UNCHANGED svcVars

\* one step of thread t inside EmbeddingModel
ThreadStep(t) ==
    \/ Check1(t)
    \/ AcquireLock(t)
    \/ Check2(t)
    \/ DownloadOk(t)
    \/ DownloadFail(t)
    \/ ConstructOk(t)
    \/ ConstructFail(t)
    \/ Payload(t)
    \/ ForNext(t)
    \/ \E d \in 0 .. MaxInputs : ComputeReturn(t, d)
    \/ ComputeFail(t)

----------------------------------------------------------------------------
(* Spec: NumCallers threads use the class concurrently *)

Next ==
    \/ \E t \in Threads : CallAcquire(t)
    \/ \E t \in Threads, n \in ConcurrentLens : CallEmbed(t, n, None)
    \/ \E t \in Threads : ThreadStep(t)
    \/ \E t \in Threads : Return(t)

Spec == Init /\ [][Next]_vars

\* two threads are enough for one caller to wait on another
TwoCallers == {1, 2}

NextFair ==
    \/ \E t \in TwoCallers : CallAcquire(t)
    \/ \E t \in TwoCallers, n \in ConcurrentLens : CallEmbed(t, n, None)
    \/ \E t \in TwoCallers : ThreadStep(t)
    \/ \E t \in TwoCallers : Return(t)

\* two callers under a fair scheduler: a thread that can take a step inside
\* EmbeddingModel takes one, and every call into the engine or the artifact
\* store returns or raises
FairSpec ==
    /\ Init
    /\ [][NextFair]_vars
    /\ \A t \in TwoCallers : WF_vars(ThreadStep(t))

----------------------------------------------------------------------------
(* SharedSpec: two threads, each call through any EmbeddingModel object    *)

\* a thread calls o._load_llama()
CallAcquireOn(t, o) ==
    /\ BeginCallOn(t, o, "acquire", 0, None)
    /\ UNCHANGED svcVars

\* a thread calls o.embed(inputs)
CallEmbedOn(t, o, n) ==
    /\ BeginCallOn(t, o, "embed", n, None)
    /\ UNCHANGED svcVars

NextShared ==
    \/ \E t \in TwoCallers, o \in Objects : CallAcquireOn(t, o)
    \/ \E t \in TwoCallers, o \in Objects, n \in ConcurrentLens :
          CallEmbedOn(t, o, n)
    \/ \E t \in TwoCallers : ThreadStep(t)
    \/ \E t \in TwoCallers : Return(t)

SharedSpec == Init /\ [][NextShared]_vars

----------------------------------------------------------------------------
(* EmbedSpec: one caller, embed over longer inputs, requested batch sizes  *)
(* and settings                                                            *)

Caller == 1

\* the values of settings.max_batch_size tried: the shipped default and small
\* values, for which inputs of a few strings span several chunks
MaxBatchSettings == (1 .. MaxSetting) \cup {DefaultMaxBatch}

\* the batch_size arguments tried
RequestedSizes == {None} \cup (1 .. MaxRequested)

InitEmbed ==
    /\ InitThreads
    /\ NoService
    /\ max_batch_size \in MaxBatchSettings

NextEmbed ==
    \/ \E n \in 0 .. MaxInputs, bs \in RequestedSizes : CallEmbed(Caller, n, bs)
    \/ ThreadStep(Caller)
    \/ Return(Caller)

EmbedSpec == InitEmbed /\ [][NextEmbed]_vars

----------------------------------------------------------------------------
(* ServiceSpec: the FastAPI application of app/main.py.  The warm-up runs  *)
(* in an executor thread while lifespan awaits it; every request handler   *)
(* runs on the thread of the event loop.                                   *)

WarmThread == 1
LoopThread == 2

\* the items of a request's input: a string with text, or one that is empty
\* or whitespace only
ItemKinds == {"text", "blank"}

RECURSIVE SeqsUpTo(_, _)
\* the sequences over S of length at most n
SeqsUpTo(S, n) ==
    IF n = 0 THEN {<<>>}
    ELSE LET shorter == SeqsUpTo(S, n - 1)
         IN  shorter \cup {Append(q, x) : q \in shorter, x \in S}

\* the request bodies clients send: input is one string or a list of strings
Requests ==
    {r \in [shape : {"str", "list"},
            items : SeqsUpTo(ItemKinds, MaxRequestLen),
            batch_size : {None, 1}] : r.shape = "str" => Len(r.items) = 1}

\* validate_input without strip(): whitespace-only strings are accepted
validate_inputNoStrip(req) ==
    IF req.shape = "list" THEN req.items # <<>> ELSE TRUE

\* EmbeddingRequest.validate_input: TRUE when the value is accepted
validate_input(req) ==
    IF req.shape = "list"
    THEN /\ req.items # <<>>
         /\ \A i \in 1 .. Len(req.items) : req.items[i] = "text"
    ELSE req.items[1] = "text"

\* _normalize_inputs: the number of strings handed to embed
_normalize_inputs(req) == IF req.shape = "str" THEN 1 ELSE Len(req.items)

InitService ==
    /\ InitThreads
    /\ max_batch_size = DefaultMaxBatch
    /\ phase = "startup"
    /\ warmup = "none"
    /\ pending = 0
    /\ arrivals = 0
    /\ response = NoResponse
    /\ sent = {}

\* lifespan, lines 33-36 and _warm_model: model.embed(["warmup"]) is handed
\* to the executor and awaited
LifespanStart ==
    /\ phase = "startup"
    /\ phase' = "warmup"
    /\ BeginCall(WarmThread, "embed", 1, None)
    /\ UNCHANGED <<warmup, pending, arrivals, response, sent>>

\* LifespanYield without the await: the warm-up is left running in the
\* executor while the application starts accepting requests
LifespanYieldEarly ==
    /\ phase = "warmup"
    /\ warmup' = "ok"
    /\ phase' = "accepting"
    /\ UNCHANGED <<progVars, histVars, pending, arrivals, response, sent>>

\* LifespanYield without the except clause: a failed warm-up ends the startup
LifespanYieldOnlyOnSuccess ==
    /\ phase = "warmup"
    /\ pc[WarmThread] = "done"
    /\ outcome[WarmThread] = "ok"
    /\ warmup' = "ok"
    /\ phase' = "accepting"
    /\ EndCall(WarmThread)
    /\ UNCHANGED <<pending, arrivals, response, sent>>

\* lifespan, lines 37-41: the awaited call is over, its outcome is logged and
\* the application starts accepting requests
LifespanYield ==
    /\ phase = "warmup"
    /\ pc[WarmThread] = "done"
    /\ warmup' = IF outcome[WarmThread] = "ok" THEN "ok" ELSE "failed"
    /\ phase' = "accepting"
    /\ EndCall(WarmThread)
    /\ UNCHANGED <<pending, arrivals, response, sent>>

\* a client sends a request to the listening socket
Arrive ==
    /\ phase = "accepting"
    /\ arrivals < MaxRequests
    /\ arrivals' = arrivals + 1
    /\ pending' = pending + 1
    /\ UNCHANGED <<progVars, histVars, phase, warmup, response, sent>>

\* the event loop is free to take the next request
LoopIdle == phase = "accepting" /\ pc[LoopThread] = "idle"

\* the event loop takes a request: the body is validated (422 when rejected)
\* and create_embeddings, lines 64-72, calls embed on the loop's own thread
BeginRequest(req) ==
    /\ LoopIdle
    /\ pending > 0
    /\ pending' = pending - 1
    /\ IF validate_input(req)
       THEN /\ BeginCall(LoopThread, "embed", _normalize_inputs(req), req.batch_size)
            /\ UNCHANGED <<response, sent>>
       ELSE /\ response' = [status |-> 422, data |-> <<>>]
            /\ sent' = sent \cup {422}
            /\ UNCHANGED <<progVars, histVars>>
    /\ UNCHANGED <<phase, warmup, arrivals>>

\* create_embeddings, lines 73-85: an exception of embed becomes a 500,
\* a returned list becomes the data of a 200
Respond ==
    /\ phase = "accepting"
    /\ pc[LoopThread] = "done"
    /\ response' = IF outcome[LoopThread] = "ok"
                   THEN [status |-> 200, data |-> result[LoopThread]]
                   ELSE [status |-> 500, data |-> <<>>]
    /\ sent' = sent \cup {response'.status}
    /\ EndCall(LoopThread)
    /\ UNCHANGED <<phase, warmup, pending, arrivals>>

NextService ==
    \/ LifespanStart
    \/ LifespanYield
    \/ Arrive
    \/ \E req \in Requests : BeginRequest(req)
    \/ \E t \in {WarmThread, LoopThread} : ThreadStep(t)
    \/ Respond

ServiceSpec == InitService /\ [][NextService]_vars

\* the service under a fair scheduler: the event loop runs lifespan and the
\* handlers, the executor runs the warm-up, and every call into the engine or
\* the artifact store returns or raises
ServiceLiveSpec ==
    /\ ServiceSpec
    /\ WF_vars(LifespanStart)
    /\ WF_vars(LifespanYield)
    /\ WF_vars(Respond)
    /\ \A t \in {WarmThread, LoopThread} : WF_vars(ThreadStep(t))

----------------------------------------------------------------------------
(* Properties *)

\* thread t has a finished call of the given kind in hand
Finished(t, kind) == pc[t] = "done" /\ op[t] = kind

\* the vectors of the inputs of thread t's call, in input order
Expected(t) == [i \in 1 .. Len(inputs[t]) |-> StubVector(inputs[t][i])]

\* the sub-batch size of thread t's call
Batch(t) == ResolvedBatch(batch_size[t], max_batch_size)

\* C1 (Spec): as long as no resolution or construction has failed, the
\* construction is invoked at most once however the callers interleave,
\* exactly once as soon as a caller holds a handle, and every handle a
\* caller holds is the one recorded handle.
C1_SingleConstruction ==
    failures = 0 =>
        /\ attempts <= 1
        /\ \A t \in Threads :
              /\ llama[t] # None => attempts = 1 /\ llama[t] = instance
              /\ Finished(t, "acquire") => outcome[t] = "ok" /\ llama[t] # None
        /\ \A t, u \in Threads :
              (llama[t] # None /\ llama[u] # None) => llama[t] = llama[u]

\* every caller has returned from a contended first acquire, no failure
C1_Witness ==
    /\ failures = 0
    /\ \A t \in Threads : Finished(t, "acquire") /\ outcome[t] = "ok"
    /\ \E t \in Threads : waited[t]
    /\ \E t \in Threads : constructed[t] = 1

\* C2 (Spec): at most one handle is ever constructed successfully, and a
\* recorded handle is never reset to None nor replaced, whatever acquire and
\* embed calls, failed constructions and failed compute calls occur.
C2_OneHandleForever ==
    /\ [](built <= 1)
    /\ [][instance # None => instance' = instance]_vars

\* a handle exists after a failed construction and a failed compute call
C2_Witness ==
    /\ built = 1
    /\ instance # None
    /\ failures >= 1
    /\ computeFailed
    /\ \E t \in Threads : Finished(t, "embed") /\ outcome[t] = "ok"

\* thread t leaves _load_llama by an exception in this step
LoadFailureStep(t) ==
    /\ pc[t] \in {"download", "construct"}
    /\ pc'[t] = "done"
    /\ outcome'[t] = "load_error"

\* C3 (Spec): a failed resolution or construction reaches the caller that
\* attempted it, leaves no handle recorded and the lock free; no call fails
\* without having attempted the construction itself (a failure is never
\* replayed from a cache), and a call that returns normally has a handle.
C3_FailureNotCached ==
    /\ [](\A t \in Threads :
            /\ (pc[t] = "done" /\ outcome[t] = "load_error") =>
                  constructed[t] = 1 /\ llama[t] = None /\ lock # t
            /\ (Finished(t, "acquire") /\ outcome[t] = "ok") =>
                  llama[t] # None /\ llama[t] = instance)
    /\ [][\A t \in Threads :
            LoadFailureStep(t) => instance' = None /\ lock' = None]_vars

\* after a failed attempt a later acquire has constructed the handle itself
C3_Witness ==
    /\ failures >= 1
    /\ \E t \in Threads :
          /\ Finished(t, "acquire")
          /\ outcome[t] = "ok"
          /\ constructed[t] = 1
          /\ llama[t] = instance
          /\ instance # None

\* C4 (EmbedSpec): when every compute response carries one vector per input
\* of its chunk, a successful embed returns, for every input sequence and
\* sub-batch size, exactly the vectors of its inputs in input order.
C4_OrderPreserved ==
    \A t \in Threads :
        (Finished(t, "embed") /\ outcome[t] = "ok" /\ dropped[t] = 0) =>
            /\ Len(result[t]) = Len(inputs[t])
            /\ \A i \in 1 .. Len(inputs[t]) : result[t][i] = StubVector(inputs[t][i])

\* a call over several chunks, the last one shorter, has returned
C4_Witness ==
    \E t \in Threads :
        /\ Finished(t, "embed")
        /\ outcome[t] = "ok"
        /\ dropped[t] = 0
        /\ Len(inputs[t]) = MaxInputs
        /\ Batch(t) = 2
        /\ Len(chunkLog[t]) = (MaxInputs + 1) \div 2

\* C5 (EmbedSpec): whatever batch size is requested, no chunk passed to
\* create_embedding has more than settings.max_batch_size inputs.
C5_BatchCeiling ==
    \A t \in Threads :
        \A k \in 1 .. Len(chunkLog[t]) : Len(chunkLog[t][k]) <= max_batch_size

\* a request above the maximum was cut down to chunks of the maximum
C5_Witness ==
    \E t \in Threads :
        /\ batch_size[t] > max_batch_size
        /\ Len(inputs[t]) > max_batch_size
        /\ Len(chunkLog[t]) >= 2
        /\ Len(chunkLog[t][1]) = max_batch_size

\* C6 (Spec): embed of an empty input sequence returns an empty result without
\* error and without a compute call, in every state of the handle manager.
C6_EmptyInputAlwaysSucceeds ==
    \A t \in Threads :
        (Finished(t, "embed") /\ inputs[t] = <<>>) =>
            outcome[t] = "ok" /\ result[t] = <<>> /\ chunkLog[t] = <<>>

\* C7 (EmbedSpec): a compute failure fails the whole call, which returns no
\* vector and computes no later chunk; the shared handle stays as it was and
\* the lock free; and a call made after such a failure, whose compute calls
\* all answer in full, returns its full result.
C7_ComputeFailureIsolated ==
    \A t \in Threads :
        /\ (pc[t] = "done" /\ outcome[t] = "compute_error") =>
              /\ result[t] = <<>>
              /\ Len(chunkLog[t]) = (index[t] \div Batch(t)) + 1
              /\ instance # None
              /\ llama[t] = instance
              /\ lock = None
        /\ (computeFailed /\ Finished(t, "embed") /\ outcome[t] = "ok"
              /\ dropped[t] = 0) => result[t] = Expected(t)

\* after a failed call, a later call over several chunks returned in full
C7_Witness ==
    /\ computeFailed
    /\ \E t \in Threads :
          /\ Finished(t, "embed")
          /\ outcome[t] = "ok"
          /\ dropped[t] = 0
          /\ Len(chunkLog[t]) >= 3
          /\ result[t] = Expected(t)

\* C8 (EmbedSpec): every embed call that returns successfully returns exactly
\* len(inputs) vectors.
C8_SuccessHasFullLength ==
    \A t \in Threads :
        (Finished(t, "embed") /\ outcome[t] = "ok") =>
            Len(result[t]) = Len(inputs[t])

\* C9 as stated (Spec): a caller that had to wait for the lock never invokes
\* the construction itself.
C9_WaiterNeverConstructs ==
    \A t \in Threads : waited[t] => constructed[t] = 0

\* C9 amended (Spec): only the holder of the lock is past line 58, so a
\* caller that found the lock held goes on only after the holder is done; it
\* invokes the construction itself only if a construction failed while it
\* waited, and otherwise returns the recorded handle; and no call holds a
\* handle before a construction has completed.
C9_WaiterGetsSameHandle ==
    \A t \in Threads :
        /\ pc[t] \in {"check2", "download", "construct"} => lock = t
        /\ (waited[t] /\ constructed[t] > 0) => failSeen[t]
        /\ (waited[t] /\ llama[t] # None /\ ~failSeen[t]) =>
              constructed[t] = 0 /\ llama[t] = instance
        /\ llama[t] # None => built >= 1 /\ llama[t] = instance

\* a caller that waited for a successful construction has returned its handle
C9_Witness ==
    \E t, u \in Threads :
        /\ t # u
        /\ Finished(t, "acquire") /\ waited[t] /\ ~failSeen[t]
        /\ constructed[t] = 0 /\ llama[t] = instance /\ instance # None
        /\ Finished(u, "acquire") /\ constructed[u] = 1 /\ llama[u] = instance

\* C10 (ServiceSpec): while the compute call of one request is in progress,
\* the service can take the next request that a client has sent.
C10_AcceptsDuringCompute ==
    (phase = "accepting" /\ pc[LoopThread] = "compute" /\ pending > 0) =>
        ENABLED (\E req \in Requests : BeginRequest(req))

\* the first request is past _load_llama on the event loop
FirstRequestLoaded ==
    /\ phase = "accepting"
    /\ response = NoResponse
    /\ pc[LoopThread] = "payload"

\* C11 as stated (ServiceLiveSpec): after a failed warm-up the first request
\* that reaches embed invokes the construction again.
C11_FailedWarmupAlwaysRetried ==
    (FirstRequestLoaded /\ warmup = "failed") => constructed[LoopThread] = 1

\* C11 amended (ServiceLiveSpec): no request is taken before the warm-up call
\* is over; the service gets to accept requests whether the warm-up failed or
\* not; and after a warm-up that failed in resolution or construction (not in
\* the compute call) the first request that reaches embed invokes the
\* construction itself.
C11_WarmupThenAccepting ==
    /\ [](phase = "accepting" =>
            warmup \in {"ok", "failed"} /\ pc[WarmThread] = "idle")
    /\ [](phase # "accepting" =>
            pending = 0 /\ pc[LoopThread] = "idle" /\ response = NoResponse)
    /\ []((FirstRequestLoaded /\ warmup = "failed" /\ ~computeFailed) =>
            constructed[LoopThread] = 1 /\ llama[LoopThread] = instance
            /\ instance # None)
    /\ <>(phase = "accepting")

\* after a warm-up that failed to construct, the first request has constructed
C11_Witness ==
    /\ FirstRequestLoaded
    /\ warmup = "failed"
    /\ ~computeFailed
    /\ failures >= 1
    /\ constructed[LoopThread] = 1
    /\ instance # None

\* an input the HTTP boundary has to reject: an empty list, an empty or
\* whitespace-only string, or a list that contains such a string
BadInput(req) ==
    \/ req.shape = "list" /\ req.items = <<>>
    \/ \E i \in 1 .. Len(req.items) : req.items[i] = "blank"

\* the handler hands the outcome of a failed embed call to the client
FailedCallAnswered ==
    /\ pc[LoopThread] = "done"
    /\ outcome[LoopThread] # "ok"
    /\ pc'[LoopThread] = "idle"

\* C12 (ServiceSpec): a request with a bad input is answered with a client
\* error and embed is not called for it; every failure of embed becomes one
\* 500 response without data; only a 200 carries embedding data.
C12_BoundaryErrors ==
    /\ [](response.status \in {0, 200, 422, 500})
    /\ [](response.status # 200 => response.data = <<>>)
    /\ [][\A req \in Requests :
            (BadInput(req) /\ BeginRequest(req)) =>
                /\ response'.status = 422
                /\ pc' = pc /\ op' = op
                /\ attempts' = attempts /\ chunkLog' = chunkLog]_vars
    /\ [][FailedCallAnswered =>
            response' = [status |-> 500, data |-> <<>>]]_vars

\* a bad request has been rejected and a failed embed call answered with 500
C12_Witness ==
    /\ {422, 500} \subseteq sent
    /\ response.status = 500
    /\ response.data = <<>>

\* ceil(n / b)
CeilDiv(n, b) == (n + b - 1) \div b

\* the k-th contiguous slice of b inputs of thread t's call
KthChunk(t, k, b) ==
    [j \in 1 .. (Min(k * b, Len(inputs[t])) - (k - 1) * b) |->
        inputs[t][(k - 1) * b + j]]

RECURSIVE Flatten(_)
\* the concatenation of a sequence of sequences
Flatten(seqs) ==
    IF seqs = <<>> THEN <<>> ELSE Head(seqs) \o Flatten(Tail(seqs))

\* C13 (EmbedSpec): for n >= 1 inputs and effective size b >= 1, the k-th
\* compute call gets the k-th contiguous slice of b inputs, one call at a
\* time in increasing order; every chunk is non-empty, every chunk but the
\* last has b inputs, and a call that returns has made ceil(n/b) compute
\* calls whose chunks concatenate to the inputs.
C13_ContiguousChunks ==
    \A t \in Threads :
        LET n == Len(inputs[t])
            b == Min(IF batch_size[t] = None THEN max_batch_size
                     ELSE batch_size[t], max_batch_size)
            calls == Len(chunkLog[t])
        IN  /\ b >= 1
            /\ calls <= CeilDiv(n, b)
            /\ \A k \in 1 .. calls :
                  /\ chunkLog[t][k] = KthChunk(t, k, b)
                  /\ Len(chunkLog[t][k]) >= 1
                  /\ k < CeilDiv(n, b) => Len(chunkLog[t][k]) = b
            /\ pc[t] = "compute" => calls = (index[t] \div b) + 1
            /\ pc[t] = "loop" => calls = index[t] \div b /\ index[t] = calls * b
            /\ (Finished(t, "embed") /\ outcome[t] = "ok") =>
                  calls = CeilDiv(n, b) /\ Flatten(chunkLog[t]) = inputs[t]

\* maximum 2, five inputs: three compute calls, of sizes 2, 2 and 1
C13_Witness ==
    \E t \in Threads :
        /\ Finished(t, "embed")
        /\ outcome[t] = "ok"
        /\ max_batch_size = 2
        /\ Len(inputs[t]) = 5
        /\ Len(chunkLog[t]) = 3
        /\ Len(chunkLog[t][1]) = 2
        /\ Len(chunkLog[t][2]) = 2
        /\ Len(chunkLog[t][3]) = 1

\* the elements of a sequence
Range(seq) == {seq[i] : i \in DOMAIN seq}

\* C14 (EmbedSpec): entries without a vector are dropped and the call still
\* succeeds: the result holds, in input order and without padding, exactly
\* the vectors that were delivered, so it is shorter than the inputs by the
\* number of dropped entries.
C14_DropsWithoutPadding ==
    \A t \in Threads :
        (Finished(t, "embed") /\ outcome[t] = "ok") =>
            /\ Len(result[t]) = Len(inputs[t]) - dropped[t]
            /\ result[t] =
                  SelectSeq(Expected(t), LAMBDA v : v \in Range(result[t]))

\* a call has returned after entries were dropped from two of its responses
C14_Witness ==
    \E t \in Threads :
        /\ Finished(t, "embed")
        /\ outcome[t] = "ok"
        /\ dropped[t] >= 2
        /\ Len(chunkLog[t]) >= 2
        /\ Len(result[t]) >= 2
        /\ Len(result[t]) < Len(inputs[t])

\* thread t is at the first line of _load_llama and a handle is recorded
StartsWithHandle(t) == pc[t] = "check1" /\ instance # None

\* C15 (Spec): a call that starts once a handle is recorded can always take
\* its step whoever holds the lock, and that step returns the recorded handle
\* without touching the lock and without invoking the construction.
C15_FastPath ==
    /\ [](\A t \in Threads : StartsWithHandle(t) => ENABLED Check1(t))
    /\ [][\A t \in Threads :
            (StartsWithHandle(t) /\ pc'[t] # "check1") =>
                /\ pc'[t] = AfterLoad(t)
                /\ llama'[t] = instance
                /\ instance' = instance
                /\ lock' = lock
                /\ attempts' = attempts
                /\ constructed'[t] = 0
                /\ ~waited'[t]]_vars

\* a call has returned the handle while another thread holds the lock
C15_Witness ==
    \E t, u \in Threads :
        /\ t # u
        /\ lock = u
        /\ Finished(t, "acquire")
        /\ outcome[t] = "ok"
        /\ constructed[t] = 0
        /\ ~waited[t]
        /\ llama[t] = instance
        /\ instance # None

\* the threads with a create_embedding call in progress
Computing == {t \in Threads : pc[t] = "compute"}

\* the threads inside a call of EmbeddingModel
InCall == {t \in Threads : pc[t] # "idle"}

\* C16 (ServiceSpec): in the running service at most one create_embedding
\* call is in progress at any time: the warm-up is over before the first
\* request is taken, requests are handled one after the other, and a call in
\* progress is the only chunk of its request that is not yet answered.
C16_OneComputeAtATime ==
    /\ Cardinality(Computing) <= 1
    /\ Cardinality(InCall) <= 1
    /\ phase = "accepting" => pc[WarmThread] = "idle"
    /\ \A t \in Threads :
          pc[t] = "compute" =>
              /\ Len(chunkLog[t]) = (index[t] \div Batch(t)) + 1
              /\ Len(embeddings[t]) + dropped[t] = index[t]

\* the second chunk of a request is being computed while a request waits
C16_Witness ==
    /\ phase = "accepting"
    /\ pc[LoopThread] = "compute"
    /\ Len(chunkLog[LoopThread]) = 2
    /\ pending >= 1
    /\ Computing = {LoopThread}

\* the positions of a thread inside _load_llama
LoadPositions == {"check1", "lock", "check2", "download", "construct"}

\* C17 (FairSpec): the lock is only ever held by a thread that is inside the
\* with block of _load_llama, and under a fair scheduler with terminating
\* construction attempts every call of _load_llama returns a handle or raises.
C17_NoCallerBlockedForever ==
    /\ [](lock # None => pc[lock] \in {"check2", "download", "construct"})
    /\ \A t \in Threads :
          (pc[t] \in LoadPositions) ~>
              (pc[t] \notin LoadPositions
                 /\ (llama[t] # None \/ outcome[t] = "load_error"))

\* a caller that waited through a failed construction has got the handle
\* after a compute call had failed as well
C17_Witness ==
    \E t \in Threads :
        /\ Finished(t, "acquire")
        /\ outcome[t] = "ok"
        /\ waited[t]
        /\ failSeen[t]
        /\ computeFailed
        /\ lock = None

\* the vectors of the inputs of thread t's call
OwnVectors(t) == {StubVector(inputs[t][i]) : i \in 1 .. Len(inputs[t])}

\* the create_embedding call of thread t raises in this step
ComputeFailureStep(t) ==
    /\ pc[t] = "compute"
    /\ pc'[t] = "done"
    /\ outcome'[t] = "compute_error"

\* C18 (Spec): with several embed calls in progress on the shared handle (an
\* engine that answers each create_embedding call for the chunk it was
\* given), the list a call builds and returns holds vectors of its own inputs
\* only, and a compute failure of one call leaves the position, the list, the
\* outcome and the result of every other call as they were.
C18_CallsIsolated ==
    /\ [](\A t \in Threads :
            /\ Range(embeddings[t]) \subseteq OwnVectors(t)
            /\ Range(result[t]) \subseteq OwnVectors(t)
            /\ \A k \in 1 .. Len(chunkLog[t]) :
                  Range(chunkLog[t][k]) \subseteq Range(inputs[t]))
    /\ [][\A t, u \in Threads :
            (t # u /\ ComputeFailureStep(t)) =>
                /\ pc'[u] = pc[u]
                /\ embeddings'[u] = embeddings[u]
                /\ outcome'[u] = outcome[u]
                /\ result'[u] = result[u]]_vars

\* one call has failed in compute and another, in progress meanwhile, has
\* returned the vectors of its own inputs
C18_Witness ==
    \E t, u \in Threads :
        /\ t # u
        /\ pc[t] = "done" /\ outcome[t] = "compute_error"
        /\ Finished(u, "embed") /\ outcome[u] = "ok"
        /\ result[u] # <<>>
        /\ result[u] = Expected(u)

\* the positions between entering and leaving "with EmbeddingModel._lock"
InLock == {"check2", "download", "construct"}

\* C19: the handle and the construction lock belong to the class, not to an
\* EmbeddingModel object: whichever objects the calls go through, at most one
\* construction succeeds, the lock of one caller excludes the callers that
\* came through another object, and every caller holds the one handle, so
\* callers through distinct objects hold the same handle
C19_SharedAcrossObjects ==
    /\ built <= 1
    /\ \A t, u \in Threads :
          (pc[t] \in InLock /\ pc[u] \in InLock) => t = u
    /\ \A t \in Threads : pc[t] \in InLock => lock = t
    /\ \A t \in Threads : llama[t] # None => llama[t] = instance
    /\ \A t, u \in Threads :
          (self[t] # self[u] /\ llama[t] # None /\ llama[u] # None) =>
              llama[t] = llama[u]

\* two calls through distinct objects have returned the same handle; one of
\* them constructed it while the other waited at the lock
C19_Witness ==
    \E t, u \in Threads :
        /\ self[t] # None /\ self[u] # None /\ self[t] # self[u]
        /\ pc[t] = "done" /\ outcome[t] = "ok" /\ constructed[t] = 1
        /\ pc[u] = "done" /\ outcome[u] = "ok" /\ constructed[u] = 0
        /\ waited[u]
        /\ llama[t] # None /\ llama[t] = llama[u]
        /\ built = 1

====
